---- MODULE Spec2Model ----
(***************************************************************************)
(* Bag-of-cells codec of ton-js (src/src/boc/boc.ts): the hash/depth       *)
(* engine with its cache context, the header and cell-record parsers, the  *)
(* deserializer and the serializer.                                        *)
(*                                                                         *)
(* Two specifications share the module:                                    *)
(*   Spec     top-level calls of hashCell, getMaxDepth and serializeToBoc  *)
(*            on a mutable cell graph, interleaved with mutations;         *)
(*   SpecBoc  serializeToBoc on a chosen graph, a single byte replaced or  *)
(*            the tail cut, then deserializeBoc.                           *)
(***************************************************************************)
EXTENDS Integers, Sequences, FiniteSets, TLC

VARIABLES
    heap,          \* Spec: the caller's cells, id -> [kind, bits, refs]
    cacheContext,  \* Spec: the module-level cacheContext (NoContext = null)
    symbols,       \* Spec: how many Symbol()s were created so far
    cellCache,     \* Spec: <<cell, symbol>> -> CellCache, the side tables
    last,          \* Spec: what the last top-level call did and returned
    edits,         \* Spec: how many mutations the caller has made
    cells,         \* SpecBoc: the graph handed to serializeToBoc
    opts,          \* SpecBoc: has_idx, hash_crc32, has_cache_bits, flags
    sent,          \* SpecBoc: the container as serializeToBoc returned it
    boc,           \* SpecBoc: the container bytes handed to deserializeBoc
    phase,         \* SpecBoc: "built", "serialized", "changed", "read"
    changed,       \* SpecBoc: what was done to boc, [how, at]
    out            \* SpecBoc: what deserializeBoc did with boc

vars == <<heap, cacheContext, symbols, cellCache, last, edits,
          cells, opts, sent, boc, phase, changed, out>>
engineVars == <<heap, cacheContext, symbols, cellCache, last, edits>>
bocVars == <<cells, opts, sent, boc, phase, changed, out>>

----------------------------------------------------------------------------
(* Bounds of the model.                                                    *)

MaxCells == 3      \* cells of a graph
MaxRefs == 2       \* refs of a cell, except the one 7-ref shape
MaxSymbols == 2    \* top-level calls of one behaviour of Spec
MaxEdits == 1      \* mutations of one behaviour of Spec
MaxChangeCells == 2 \* SpecBoc replaces or cuts bytes of graphs up to this size

----------------------------------------------------------------------------
(* Numbers as the code's JavaScript handles them.                          *)

\* cacheContext = null (line 10); cache.maxDepth = null (line 14).
NoContext == 0
NullDepth == 0 - 1
\* cache.hash = null (line 13): no digest is the empty tuple.
NullHash == <<>>
\* cells_array[r] for an r that is no index of cells_array (lines 325, 330).
Undefined == 0 - 1
\* readNBytesUIntFromArray over a missing byte: res += undefined is NaN.
NaN == 0 - 1048576
\* A number too large for TLC's integers; it only ever meets
\* comparisons with buffer lengths and array indexing, where every value
\* from here up behaves alike.
Huge == 1048576

Min(a, b) == IF a < b THEN a ELSE b
Max(a, b) == IF a > b THEN a ELSE b

\* Math.ceil(n / 8) for n >= 0.
CeilDiv8(n) == (n + 7) \div 8

\* x & m for a one-bit mask m.
AndBit(x, m) == ((x \div m) % 2) * m

RECURSIVE BitOr(_, _)
BitOr(a, b) ==
    IF a = 0 THEN b
    ELSE IF b = 0 THEN a
    ELSE (IF a % 2 = 1 \/ b % 2 = 1 THEN 1 ELSE 0) + 2 * BitOr(a \div 2, b \div 2)

RECURSIVE BitXor(_, _)
BitXor(a, b) ==
    IF a = 0 THEN b
    ELSE IF b = 0 THEN a
    ELSE ((a + b) % 2) + 2 * BitXor(a \div 2, b \div 2)

\* n.toString(2).length for n >= 0.
RECURSIVE BinaryLength(_)
BinaryLength(n) == IF n < 2 THEN 1 ELSE 1 + BinaryLength(n \div 2)

\* buf.subarray(start, end): negative indices count from the end, both are
\* clamped to the buffer, NaN is 0, and an end before the start is empty.
SubIndex(buf, i) ==
    IF i = NaN THEN 0
    ELSE IF i < 0 THEN Max(Len(buf) + i, 0)
    ELSE Min(i, Len(buf))

Subarray(buf, start, end) ==
    LET s == SubIndex(buf, start)
        e == SubIndex(buf, end)
    IN IF e <= s THEN <<>> ELSE SubSeq(buf, s + 1, e)

SubarrayFrom(buf, start) == Subarray(buf, start, Len(buf))

\* a < b as JavaScript compares numbers: false when either is NaN.
JsLess(a, b) == a # NaN /\ b # NaN /\ a < b

----------------------------------------------------------------------------
(* BitString: the payload's bits, cursor = Len.                            *)

RECURSIVE PackBits(_)
PackBits(bits) ==
    IF Len(bits) = 0 THEN <<>>
    ELSE <<bits[1] * 128 + bits[2] * 64 + bits[3] * 32 + bits[4] * 16
           + bits[5] * 8 + bits[6] * 4 + bits[7] * 2 + bits[8]>>
         \o PackBits(SubSeq(bits, 9, Len(bits)))

RECURSIVE UnpackBits(_)
UnpackBits(bytes) ==
    IF Len(bytes) = 0 THEN <<>>
    ELSE [i \in 1..8 |-> (bytes[1] \div (2 ^ (8 - i))) % 2]
         \o UnpackBits(Tail(bytes))

getTopUppedLength(bits) == CeilDiv8(Len(bits))

\* The byte-aligned encoding: whole bytes as they are, otherwise a 1 bit and
\* zeros up to the byte boundary.
getTopUppedArray(bits) ==
    IF Len(bits) % 8 = 0 THEN PackBits(bits)
    ELSE PackBits(bits \o <<1>> \o [i \in 1..(7 - (Len(bits) % 8)) |-> 0])

\* The position of the padding marker: the last 1 among the last 7 bits.
RECURSIVE FindEndBit(_, _, _)
FindEndBit(bits, cursor, tries) ==
    IF tries = 0 THEN 0
    ELSE IF bits[cursor] = 1 THEN cursor
    ELSE FindEndBit(bits, cursor - 1, tries - 1)

fromTopUppedArray(bytes, fullfilledBytes) ==
    LET bits == UnpackBits(bytes)
        endBit == FindEndBit(bits, Len(bits), 7)
    IN IF fullfilledBytes \/ Len(bits) = 0 THEN [bits |-> bits, err |-> ""]
       ELSE IF endBit = 0 THEN [bits |-> <<>>, err |-> "Incorrect TopUppedArray"]
       ELSE [bits |-> SubSeq(bits, 1, endBit - 1), err |-> ""]

----------------------------------------------------------------------------
(* Cell.                                                                   *)

NewCell(kind, bits, refs) == [kind |-> kind, bits |-> bits, refs |-> refs]

isExotic(cell) == cell.kind # "ordinary"

----------------------------------------------------------------------------
(* The cache context (lines 10-42). A call takes the interpreter state st  *)
(* (ctx, syms, cache and the instrumentation) and returns [val, st, err];  *)
(* err # "" is a throw.                                                    *)

Ret(v, st) == [val |-> v, st |-> st, err |-> ""]
Throw(e, st) == [val |-> 0, st |-> st, err |-> e]

NoRuns == [c \in {} |-> 0]
Runs(runs, c) == IF c \in DOMAIN runs THEN runs[c] ELSE 0
CountRun(runs, c) == (c :> (Runs(runs, c) + 1)) @@ runs

CleanState ==
    [ctx |-> NoContext, syms |-> 0, cache |-> [p \in {} |-> 0],
     hashRuns |-> NoRuns, depthRuns |-> NoRuns, depthLog |-> {}]

getCellCache(src, st) ==
    IF st.ctx = NoContext THEN Throw("No cache context", st)
    ELSE IF src = Undefined THEN Throw("TypeError", st)
    ELSE IF <<src, st.ctx>> \in DOMAIN st.cache THEN Ret(0, st)
    ELSE Ret(0, [st EXCEPT !.cache =
                    (<<src, st.ctx>> :> [hash |-> NullHash, maxDepth |-> NullDepth]) @@ @])

\* inCache up to the try: the context is created when there is none, and the
\* cell's cache is looked up before the try block is entered.
inCacheEnter(cell, st) ==
    LET wasCreated == st.ctx = NoContext
        st1 == IF wasCreated
               THEN [st EXCEPT !.ctx = st.syms + 1, !.syms = st.syms + 1,
                               !.hashRuns = NoRuns, !.depthRuns = NoRuns,
                               !.depthLog = {}]
               ELSE st
        g == getCellCache(cell, st1)
    IN [wasCreated |-> wasCreated, st |-> g.st, err |-> g.err]

\* inCache without its finally block: the context outlives the call.
inCacheExitLeaky(wasCreated, r) == r

\* inCache's finally block.
inCacheExit(wasCreated, r) ==
    IF wasCreated THEN [r EXCEPT !.st.ctx = NoContext] ELSE r

Cache(cell, st) == st.cache[<<cell, st.ctx>>]

----------------------------------------------------------------------------
(* Hash content (lines 49-123).                                            *)

\* sha256_sync: the digest stands for its preimage (no collisions).
sha256_sync(repr) == <<"sha256", repr>>

getMaxLevel(cell) == 0

getRefsDescriptor(cell) ==
    Len(cell.refs) + (IF isExotic(cell) THEN 1 ELSE 0) * 8 + getMaxLevel(cell) * 32

\* getBitsDescriptor without the 8 bits of an exotic cell's type byte.
getBitsDescriptorPlain(cell) ==
    CeilDiv8(Len(cell.bits)) + (Len(cell.bits) \div 8)

getBitsDescriptor(cell) ==
    LET len == Len(cell.bits) + (IF isExotic(cell) THEN 8 ELSE 0)
    IN CeilDiv8(len) + (len \div 8)

\* getMaxDepth without the increment of line 62.
DepthStepFlat(maxDepth) == maxDepth

\* maxDepth = maxDepth + 1 (line 62).
DepthStep(maxDepth) == maxDepth + 1

\* A memo check that never finds a stored value.
MemoizedNever(value, null) == FALSE

\* cache.maxDepth !== null (line 51), cache.hash truthy (line 116).
Memoized(value, null) == value # null

RECURSIVE getMaxDepth(_, _, _), getMaxDepthIn(_, _, _),
          getMaxDepthHandler(_, _, _), getMaxDepthLoop(_, _, _, _, _),
          getMaxDepthLoopTest(_, _, _, _, _), getMaxDepthLoopTake(_, _, _, _),
          hashCell(_, _, _), hashCellIn(_, _, _), hashCellHandler(_, _, _),
          getRepr(_, _, _), getReprHashes(_, _, _),
          ReprDepths(_, _, _, _, _), ReprDepthsPut(_, _, _, _, _),
          ReprHashes(_, _, _, _, _), ReprHashesPut(_, _, _, _, _)

\* for (let k in cell.refs) { ... } (lines 56-61).
getMaxDepthLoop(h, refs, k, maxDepth, st) ==
    IF k > Len(refs) THEN Ret(maxDepth, st)
    ELSE getMaxDepthLoopTest(h, refs, k, maxDepth, getMaxDepth(h, refs[k], st))

\* if (getMaxDepth(i) > maxDepth) (line 58), a the call's outcome.
getMaxDepthLoopTest(h, refs, k, maxDepth, a) ==
    IF a.err # "" THEN a
    ELSE IF a.val > maxDepth
    THEN getMaxDepthLoopTake(h, refs, k, getMaxDepth(h, refs[k], a.st))
    ELSE getMaxDepthLoop(h, refs, k + 1, maxDepth, a.st)

\* maxDepth = getMaxDepth(i) (line 59), b the second call's outcome.
getMaxDepthLoopTake(h, refs, k, b) ==
    IF b.err # "" THEN b
    ELSE getMaxDepthLoop(h, refs, k + 1, b.val, b.st)

\* The handler has started on a cell it had no depth for.
CountDepthRun(cell, st) == [st EXCEPT !.depthRuns = CountRun(@, cell)]

\* maxDepth = maxDepth + 1 inside the if; cache.maxDepth = maxDepth; return
\* (lines 62-65), r the loop's outcome.
getMaxDepthStore(cell, hasRefs, r) ==
    IF r.err # "" THEN r
    ELSE IF hasRefs
    THEN Ret(DepthStep(r.val),
             [r.st EXCEPT !.cache[<<cell, r.st.ctx>>].maxDepth = DepthStep(r.val)])
    ELSE Ret(0, [r.st EXCEPT !.cache[<<cell, r.st.ctx>>].maxDepth = 0])

getMaxDepthHandler(h, cell, st) ==
    IF Memoized(Cache(cell, st).maxDepth, NullDepth)
    THEN Ret(Cache(cell, st).maxDepth, st)
    ELSE getMaxDepthStore(cell, Len(h[cell].refs) > 0,
                          getMaxDepthLoop(h, h[cell].refs, 1, 0,
                                          CountDepthRun(cell, st)))

\* Every value getMaxDepth returns is logged with the cell it is for.
LogDepth(cell, wasCreated, r) ==
    IF r.err # "" THEN r
    ELSE [r EXCEPT !.st.depthLog = @ \cup {<<cell, r.val, wasCreated>>}]

getMaxDepthIn(h, cell, e) ==
    IF e.err # "" THEN Throw(e.err, e.st)
    ELSE LogDepth(cell, e.wasCreated,
                  inCacheExit(e.wasCreated, getMaxDepthHandler(h, cell, e.st)))

getMaxDepth(h, cell, st) == getMaxDepthIn(h, cell, inCacheEnter(cell, st))

\* for (const c of cell.refs) { md = getMaxDepth(c); two bytes } (102-106).
ReprDepths(h, refs, k, bytes, st) ==
    IF k > Len(refs) THEN Ret(bytes, st)
    ELSE ReprDepthsPut(h, refs, k, bytes, getMaxDepth(h, refs[k], st))

ReprDepthsPut(h, refs, k, bytes, md) ==
    IF md.err # "" THEN md
    ELSE ReprDepths(h, refs, k + 1,
                    bytes \o <<(md.val \div 256) % 256, md.val % 256>>, md.st)

\* for (const c of cell.refs) { c.hash().copy(...) } (107-110); Cell.hash()
\* is hashCell.
ReprHashes(h, refs, k, hashes, st) ==
    IF k > Len(refs) THEN Ret(hashes, st)
    ELSE ReprHashesPut(h, refs, k, hashes, hashCell(h, refs[k], st))

ReprHashesPut(h, refs, k, hashes, ch) ==
    IF ch.err # "" THEN ch
    ELSE ReprHashes(h, refs, k + 1, Append(hashes, ch.val), ch.st)

\* The two descriptor bytes and the payload (lines 98-101).
ReprHead(c) ==
    <<getRefsDescriptor(c) % 256, getBitsDescriptor(c) % 256>>
    \o getTopUppedArray(c.bits)

ReprJoin(bytes, hs) ==
    IF hs.err # "" THEN hs ELSE Ret(<<bytes, hs.val>>, hs.st)

getReprHashes(h, cell, ds) ==
    IF ds.err # "" THEN ds
    ELSE ReprJoin(ds.val, ReprHashes(h, h[cell].refs, 1, <<>>, ds.st))

\* The representation: <<bytes, hashes>>, the descriptor, payload and depth
\* bytes, then the children's 32-byte digests.
getRepr(h, cell, st) ==
    getReprHashes(h, cell, ReprDepths(h, h[cell].refs, 1, ReprHead(h[cell]), st))

\* repr.length: each digest is 32 bytes.
ReprLength(repr) == Len(repr[1]) + 32 * Len(repr[2])

\* The handler has started on a cell it had no hash for.
CountHashRun(cell, st) == [st EXCEPT !.hashRuns = CountRun(@, cell)]

\* r = sha256_sync(getRepr(cell)); cache.hash = r; return r (119-121).
hashCellStore(cell, repr) ==
    IF repr.err # "" THEN repr
    ELSE Ret(sha256_sync(repr.val),
             [repr.st EXCEPT !.cache[<<cell, repr.st.ctx>>].hash =
                                 sha256_sync(repr.val)])

hashCellHandler(h, cell, st) ==
    IF Memoized(Cache(cell, st).hash, NullHash)
    THEN Ret(Cache(cell, st).hash, st)
    ELSE hashCellStore(cell, getRepr(h, cell, CountHashRun(cell, st)))

hashCellIn(h, cell, e) ==
    IF e.err # "" THEN Throw(e.err, e.st)
    ELSE inCacheExit(e.wasCreated, hashCellHandler(h, cell, e.st))

hashCell(h, cell, st) == hashCellIn(h, cell, inCacheEnter(cell, st))

----------------------------------------------------------------------------
(* crc32c (utils/crc32c): CRC-32C, Castagnoli polynomial, reflected, as    *)
(* four bytes, least significant first.                                    *)

Crc32cPoly == <<120, 59, 246, 130>>
AllOnes == <<255, 255, 255, 255>>

XorBytes(a, b) == [i \in 1..4 |-> BitXor(a[i], b[i])]

ShiftRight1(c) ==
    <<(c[1] \div 2) + (c[2] % 2) * 128, (c[2] \div 2) + (c[3] % 2) * 128,
      (c[3] \div 2) + (c[4] % 2) * 128, c[4] \div 2>>

RECURSIVE CrcBitSteps(_, _)
CrcBitSteps(c, n) ==
    IF n = 0 THEN c
    ELSE CrcBitSteps(IF c[1] % 2 = 1 THEN XorBytes(ShiftRight1(c), Crc32cPoly)
                     ELSE ShiftRight1(c), n - 1)

Crc32cTable == [i \in 0..255 |-> CrcBitSteps(<<i, 0, 0, 0>>, 8)]

\* crc = TABLE[(crc ^ source[n]) & 0xff] ^ (crc >>> 8)
CrcByte(crc, byte) ==
    XorBytes(Crc32cTable[BitXor(crc[1], byte)], <<crc[2], crc[3], crc[4], 0>>)

\* The loop over source[lo..hi], in order; it is split in halves, the first
\* half evaluated before the second, to keep the evaluation shallow.
RECURSIVE CrcUpdate(_, _, _, _), CrcUpdateRest(_, _, _, _)
CrcUpdate(crc, source, lo, hi) ==
    IF lo > hi THEN crc
    ELSE IF lo = hi THEN CrcByte(crc, source[lo])
    ELSE CrcUpdateRest(CrcUpdate(crc, source, lo, (lo + hi) \div 2),
                       source, ((lo + hi) \div 2) + 1, hi)

CrcUpdateRest(left, source, lo, hi) ==
    IF left[1] >= 0 THEN CrcUpdate(left, source, lo, hi) ELSE left

crc32c(source) == XorBytes(CrcUpdate(AllOnes, source, 1, Len(source)), AllOnes)

----------------------------------------------------------------------------
(* topologicalSort (utils/topologicalSort): the cells reachable from the   *)
(* root, keyed by hash, each parent before its children, with every        *)
(* cell's refs as positions in the list.                                   *)

RECURSIVE TsCollect(_, _, _, _), TsCollectSeen(_, _, _, _),
          TsCollectAdd(_, _, _, _, _)

\* The breadth-first pass: every cell not yet known by its hash is recorded
\* with its children's hashes, and its children are queued.
TsCollect(h, pending, all, st) ==
    IF pending = <<>> THEN Ret(all, st)
    ELSE TsCollectSeen(h, pending, all, hashCell(h, Head(pending), st))

TsCollectSeen(h, pending, all, hr) ==
    IF hr.err # "" THEN hr
    ELSE IF \E i \in 1..Len(all) : all[i].hash = hr.val
    THEN TsCollect(h, Tail(pending), all, hr.st)
    ELSE TsCollectAdd(h, pending, all, hr.val,
                      ReprHashes(h, h[Head(pending)].refs, 1, <<>>, hr.st))

TsCollectAdd(h, pending, all, hash, rh) ==
    IF rh.err # "" THEN rh
    ELSE TsCollect(h, Tail(pending) \o h[Head(pending)].refs,
                   Append(all, [hash |-> hash, cell |-> Head(pending),
                                refs |-> rh.val]), rh.st)

TsEntry(all, hash) == all[CHOOSE i \in 1..Len(all) : all[i].hash = hash]

RECURSIVE TsVisit(_, _, _), TsVisitAll(_, _, _, _)
TsVisit(all, hash, sorted) ==
    IF \E i \in 1..Len(sorted) : sorted[i] = hash THEN sorted
    ELSE <<hash>> \o TsVisitAll(all, TsEntry(all, hash).refs, 1, sorted)

TsVisitAll(all, refs, k, sorted) ==
    IF k > Len(refs) THEN sorted
    ELSE TsVisitAll(all, refs, k + 1, TsVisit(all, refs[k], sorted))

TsIndex(sorted, hash) == (CHOOSE i \in 1..Len(sorted) : sorted[i] = hash) - 1

\* The sorted hashes as entries: the cell and its refs as positions.
TsResult(all, sorted) ==
    [i \in 1..Len(sorted) |->
        [cell |-> TsEntry(all, sorted[i]).cell,
         refs |-> [k \in 1..Len(TsEntry(all, sorted[i]).refs) |->
                      TsIndex(sorted, TsEntry(all, sorted[i]).refs[k])]]]

TsSorted(c) ==
    IF c.err # "" THEN c
    ELSE Ret(TsResult(c.val, TsVisit(c.val, c.val[1].hash, <<>>)), c.st)

topologicalSort(h, src, st) == TsSorted(TsCollect(h, <<src>>, <<>>, st))

----------------------------------------------------------------------------
(* Serialize (lines 339-444).                                              *)

reachBocMagicPrefix == <<181, 238, 156, 114>>
leanBocMagicPrefix == <<104, 255, 101, 243>>
leanBocMagicPrefixCRC == <<172, 195, 167, 40>>

calcCellSerializedSize(cell, sSize) ==
    2 + (IF isExotic(cell) THEN 1 ELSE 0) + getTopUppedLength(cell.bits)
    + Len(cell.refs) * sSize

\* b[start++] = (n >> (i * 8)) & 0xff, i from bytes - 1 down to 0; the shift
\* count of >> is taken modulo 32.
writeNumber(n, bytes) ==
    [k \in 1..bytes |-> (n \div (2 ^ (((bytes - k) * 8) % 32))) % 256]

ExoticTypeByte(kind) ==
    CASE kind = "pruned" -> 1
      [] kind = "library_reference" -> 2
      [] kind = "merkle_proof" -> 3
      [] kind = "merkle_update" -> 4
      [] OTHER -> 0

RECURSIVE Flatten(_)
Flatten(seqs) == IF seqs = <<>> THEN <<>> ELSE Head(seqs) \o Flatten(Tail(seqs))

\* One cell record; refs are the positions of the children.
serializeForBoc(cell, refs, sSize) ==
    IF isExotic(cell) /\ ExoticTypeByte(cell.kind) = 0
    THEN [bytes |-> <<>>, err |-> "Invalid cell type"]
    ELSE [bytes |-> <<getRefsDescriptor(cell) % 256, getBitsDescriptor(cell) % 256>>
                    \o (IF isExotic(cell) THEN <<ExoticTypeByte(cell.kind)>> ELSE <<>>)
                    \o getTopUppedArray(cell.bits)
                    \o Flatten([k \in 1..Len(refs) |-> writeNumber(refs[k], sSize)]),
          err |-> ""]

\* The flag byte (lines 411-415).
FlagsByte(has_idx, hash_crc32, has_cache_bits, flags, s_bytes) ==
    BitOr(BitOr(BitOr(BitOr((IF has_idx THEN 1 ELSE 0) * 128,
                            (IF hash_crc32 THEN 1 ELSE 0) * 64),
                      (IF has_cache_bits THEN 1 ELSE 0) * 32),
                flags * 8), s_bytes) % 256

RECURSIVE SumTo(_, _)
SumTo(sizes, i) == IF i = 0 THEN 0 ELSE sizes[i] + SumTo(sizes, i - 1)

\* Math.max(Math.ceil(n.toString(2).length / 8), 1) (lines 384-385, 393-394).
BytesFor(n) == Max(CeilDiv8(BinaryLength(n)), 1)

\* if (hash_crc32) the checksum of all that precedes it (lines 438-440).
serializeSeal(o, body, st) ==
    Ret(IF o.hash_crc32 THEN body \o crc32c(body) ELSE body, st)

\* The container up to the checksum (lines 409-437); record i is sizes[i]
\* bytes long and so starts where record i - 1 ends.
serializeWrite(o, cells_num, s_bytes, full_size, offset_bytes, sizes, records) ==
    reachBocMagicPrefix
    \o <<FlagsByte(o.has_idx, o.hash_crc32, o.has_cache_bits, o.flags, s_bytes)>>
    \o <<offset_bytes % 256>>
    \o writeNumber(cells_num, s_bytes)
    \o writeNumber(1, s_bytes)
    \o writeNumber(0, s_bytes)
    \o writeNumber(full_size, offset_bytes)
    \o writeNumber(0, s_bytes)
    \o (IF o.has_idx
        THEN Flatten([i \in 1..cells_num |->
                         writeNumber(SumTo(sizes, i), offset_bytes)])
        ELSE <<>>)
    \o Flatten([i \in 1..cells_num |-> records[i].bytes])

\* full_size and offset_bytes from the sizes (lines 387-394).
serializeSized(o, cells_num, s_bytes, sizes, records, st) ==
    IF \E i \in 1..cells_num : records[i].err # ""
    THEN Throw("Invalid cell type", st)
    ELSE serializeSeal(o, serializeWrite(o, cells_num, s_bytes,
                                         SumTo(sizes, cells_num),
                                         BytesFor(SumTo(sizes, cells_num)),
                                         sizes, records), st)

\* sizes and the cell records (lines 386, 433-437).
serializeCells(h, o, allCells, s_bytes, st) ==
    serializeSized(o, Len(allCells), s_bytes,
                   [i \in 1..Len(allCells) |->
                       calcCellSerializedSize(h[allCells[i].cell], s_bytes)],
                   [i \in 1..Len(allCells) |->
                       serializeForBoc(h[allCells[i].cell], allCells[i].refs, s_bytes)],
                   st)

serializeSorted(h, o, ts) ==
    IF ts.err # "" THEN ts
    ELSE serializeCells(h, o, ts.val, BytesFor(Len(ts.val)), ts.st)

\* The handler of serializeToBoc (lines 381-442).
serializeToBocHandler(h, cell, o, st) ==
    serializeSorted(h, o, topologicalSort(h, cell, st))

serializeToBocIn(h, cell, o, e) ==
    IF e.err # "" THEN Throw(e.err, e.st)
    ELSE inCacheExit(e.wasCreated, serializeToBocHandler(h, cell, o, e.st))

serializeToBoc(h, cell, o, st) ==
    serializeToBocIn(h, cell, o, inCacheEnter(cell, st))

----------------------------------------------------------------------------
(* Deserialize (lines 129-333). Every parser result carries oob: whether   *)
(* a byte was read at an index past the end of the buffer it was read      *)
(* from.                                                                   *)

\* res *= 256; res += ui8array[c] over ui8array[lo..hi] (from 1), split in
\* halves like CrcUpdate; a value from Huge up stays Huge.
RECURSIVE ReadBytes(_, _, _, _), ReadBytesRest(_, _, _, _)
ReadBytes(ui8array, lo, hi, res) ==
    IF lo > hi THEN res
    ELSE IF lo = hi THEN Min(Huge, res * 256 + ui8array[lo])
    ELSE ReadBytesRest(ui8array, ((lo + hi) \div 2) + 1, hi,
                       ReadBytes(ui8array, lo, (lo + hi) \div 2, res))

ReadBytesRest(ui8array, lo, hi, left) ==
    IF left >= 0 THEN ReadBytes(ui8array, lo, hi, left) ELSE left

\* A byte missing from the buffer reads as undefined and makes the sum NaN.
readNBytesUIntFromArray(n, ui8array) ==
    IF n > Len(ui8array) THEN NaN ELSE ReadBytes(ui8array, 1, n, 0)

ReadsPastEnd(n, ui8array) == n > Len(ui8array)

HeaderError(e, oob) == [err |-> e, oob |-> oob]

\* flags = (flags_byte & 16) * 2 + (flags_byte & 8) (line 160).
ParseFlags(flags_byte) == AndBit(flags_byte, 16) * 2 + AndBit(flags_byte, 8)

\* A trailer comparison that accepts every trailer.
ChecksumAlwaysMatches(inputData, trailer) == TRUE

\* crc32c(inputData.subarray(0, length - 4)).equals(trailer) (line 229).
ChecksumMatches(inputData, trailer) ==
    crc32c(Subarray(inputData, 0, Len(inputData) - 4)) = trailer

\* The flag or size byte after the magic (lines 155-176).
ParsePrefix(prefix, byte) ==
    IF prefix = reachBocMagicPrefix
    THEN [err |-> "", has_idx |-> AndBit(byte, 128) # 0,
          hash_crc32 |-> AndBit(byte, 64) # 0,
          has_cache_bits |-> AndBit(byte, 32) # 0,
          flags |-> ParseFlags(byte), size_bytes |-> byte % 8]
    ELSE IF prefix = leanBocMagicPrefix
    THEN [err |-> "", has_idx |-> TRUE, hash_crc32 |-> FALSE,
          has_cache_bits |-> FALSE, flags |-> 0, size_bytes |-> byte]
    ELSE IF prefix = leanBocMagicPrefixCRC
    THEN [err |-> "", has_idx |-> TRUE, hash_crc32 |-> TRUE,
          has_cache_bits |-> FALSE, flags |-> 0, size_bytes |-> byte]
    ELSE [err |-> "Unknown magic prefix"]

\* n numbers of width bytes each, read one after the other.
RECURSIVE ReadList(_, _, _)
ReadList(n, width, buf) ==
    IF n = 0 THEN <<>>
    ELSE <<readNBytesUIntFromArray(width, buf)>>
         \o ReadList(n - 1, width, SubarrayFrom(buf, width))

\* Check if we parsed everything (lines 236-253); index null reads <<>>.
parseEnd(hd, buf) ==
    IF Len(buf) > 0
    THEN HeaderError("Too much bytes in BoC serialization", hd.oob)
    ELSE [err |-> "", oob |-> hd.oob,
          has_idx |-> hd.has_idx, hash_crc32 |-> hd.hash_crc32,
          has_cache_bits |-> hd.has_cache_bits, flags |-> hd.flags,
          size_bytes |-> hd.size_bytes, off_bytes |-> hd.off_bytes,
          cells_num |-> hd.cells_num, roots_num |-> hd.roots_num,
          absent_num |-> hd.absent_num, tot_cells_size |-> hd.tot_cells_size,
          root_list |-> hd.root_list, index |-> hd.index,
          cells_data |-> hd.cells_data]

\* CRC32 (lines 224-233).
parseCrc32(inputData, hd, buf) ==
    IF ~hd.hash_crc32 THEN parseEnd(hd, buf)
    ELSE IF Len(buf) < 4
    THEN HeaderError("Not enough bytes for crc32c hashsum", hd.oob)
    ELSE IF ~ChecksumMatches(inputData, Subarray(buf, 0, 4))
    THEN HeaderError("Crc32c hashsum mismatch", hd.oob)
    ELSE parseEnd(hd, SubarrayFrom(buf, 4))

\* Cells (lines 217-221).
parseCells(inputData, hd, buf) ==
    IF JsLess(Len(buf), hd.tot_cells_size)
    THEN HeaderError("Not enough bytes for cells data", hd.oob)
    ELSE parseCrc32(inputData,
                    hd @@ [cells_data |-> Subarray(buf, 0, hd.tot_cells_size)],
                    SubarrayFrom(buf, hd.tot_cells_size))

\* Index (lines 205-214).
parseIndex(inputData, hd, buf) ==
    IF ~hd.has_idx THEN parseCells(inputData, hd @@ [index |-> <<>>], buf)
    ELSE IF Len(buf) < hd.off_bytes * hd.cells_num
    THEN HeaderError("Not enough bytes for index encoding", hd.oob)
    ELSE parseCells(inputData,
                    hd @@ [index |-> ReadList(hd.cells_num, hd.off_bytes, buf)],
                    SubarrayFrom(buf, hd.cells_num * hd.off_bytes))

\* The check of line 193 and the roots (lines 193-202).
parseRoots(inputData, hd, buf) ==
    IF Len(buf) < hd.roots_num * hd.size_bytes
    THEN HeaderError("Not enough bytes for encoding root cells hashes", hd.oob)
    ELSE parseIndex(inputData,
                    hd @@ [root_list |-> ReadList(hd.roots_num, hd.size_bytes, buf)],
                    SubarrayFrom(buf, hd.roots_num * hd.size_bytes))

\* tot_cells_size, offset_bytes wide (lines 191-192).
parseTotCellsSize(inputData, hd, buf) ==
    parseRoots(inputData,
               hd @@ [tot_cells_size |-> readNBytesUIntFromArray(hd.off_bytes, buf),
                      oob |-> ReadsPastEnd(hd.off_bytes, buf)],
               SubarrayFrom(buf, hd.off_bytes))

\* absent_num (lines 189-190).
parseAbsentNum(inputData, hd, buf) ==
    parseTotCellsSize(inputData,
                      hd @@ [absent_num |-> readNBytesUIntFromArray(hd.size_bytes, buf)],
                      SubarrayFrom(buf, hd.size_bytes))

\* roots_num (lines 187-188).
parseRootsNum(inputData, hd, buf) ==
    parseAbsentNum(inputData,
                   hd @@ [roots_num |-> readNBytesUIntFromArray(hd.size_bytes, buf)],
                   SubarrayFrom(buf, hd.size_bytes))

\* offset_bytes and cells_num (lines 183-186).
parseCellsNum(inputData, hd, offset_bytes, buf) ==
    parseRootsNum(inputData,
                  hd @@ [off_bytes |-> offset_bytes,
                         cells_num |-> readNBytesUIntFromArray(hd.size_bytes, buf)],
                  SubarrayFrom(buf, hd.size_bytes))

\* Counters: the one length check of the five fields (lines 179-184).
parseCounters(inputData, hd, buf) ==
    IF Len(buf) < 1 + 5 * hd.size_bytes
    THEN HeaderError("Not enough bytes for encoding cells counters", FALSE)
    ELSE parseCellsNum(inputData, hd, buf[1], SubarrayFrom(buf, 1))

parseFlags(inputData, hd) ==
    IF hd.err # "" THEN HeaderError(hd.err, FALSE)
    ELSE parseCounters(inputData, hd, SubarrayFrom(inputData, 5))

parseBocHeader(serializedBoc) ==
    IF Len(serializedBoc) < 4 + 1
    THEN HeaderError("Not enough bytes for magic prefix", FALSE)
    ELSE parseFlags(serializedBoc,
                    ParsePrefix(Subarray(serializedBoc, 0, 4), serializedBoc[5]))

CellError(e, oob) == [err |-> e, oob |-> oob]

ExoticKind(k) ==
    CASE k = 1 -> "pruned"
      [] k = 2 -> "library_reference"
      [] k = 3 -> "merkle_proof"
      [] k = 4 -> "merkle_update"
      [] OTHER -> ""

\* References, new Cell and the result (lines 295-304).
deserializeCellRefs(kind, bits, refNum, cellData, referenceIndexSize) ==
    IF bits.err # "" THEN CellError(bits.err, FALSE)
    ELSE [err |-> "",
          oob |-> \E r \in 0..(refNum - 1) :
                     ReadsPastEnd(referenceIndexSize,
                                  SubarrayFrom(cellData, r * referenceIndexSize)),
          cell |-> NewCell(kind, bits.bits, <<>>),
          refs |-> ReadList(refNum, referenceIndexSize, cellData),
          residue |-> SubarrayFrom(cellData, refNum * referenceIndexSize)]

\* The payload (lines 292-293).
deserializeCellBits(kind, refNum, fullfilledBytes, cellData, dataBytesize, sSize) ==
    deserializeCellRefs(kind,
                        fromTopUppedArray(Subarray(cellData, 0, dataBytesize),
                                          fullfilledBytes),
                        refNum, SubarrayFrom(cellData, dataBytesize), sSize)

\* The length check and the kind (lines 263-291); readUInt8 of an empty
\* buffer throws a RangeError.
deserializeCellKind(d1, d2, cellData, referenceIndexSize) ==
    IF Len(cellData) < ((d2 + 1) \div 2) + referenceIndexSize * (d1 % 8)
    THEN CellError("Not enough bytes to encode cell data", FALSE)
    ELSE IF AndBit(d1, 8) = 0
    THEN deserializeCellBits("ordinary", d1 % 8, d2 % 2 = 0, cellData,
                             (d2 + 1) \div 2, referenceIndexSize)
    ELSE IF Len(cellData) = 0 THEN CellError("RangeError", TRUE)
    ELSE IF ExoticKind(cellData[1]) = ""
    THEN CellError("Invalid cell type", FALSE)
    ELSE deserializeCellBits(ExoticKind(cellData[1]), d1 % 8, d2 % 2 = 0,
                             SubarrayFrom(cellData, 1), ((d2 + 1) \div 2) - 1,
                             referenceIndexSize)

deserializeCellData(cellData, referenceIndexSize) ==
    IF Len(cellData) < 2
    THEN CellError("Not enough bytes to encode cell descriptors", FALSE)
    ELSE deserializeCellKind(cellData[1], cellData[2], SubarrayFrom(cellData, 2),
                             referenceIndexSize)

\* for (ci = 0; ci < cells_num; ci++) deserializeCellData (lines 312-317).
RECURSIVE ReadCells(_, _, _, _, _), ReadCellsPush(_, _, _, _, _)
ReadCells(n, cells_data, size_bytes, done, oob) ==
    IF n = 0 THEN [err |-> "", oob |-> oob, records |-> done]
    ELSE ReadCellsPush(n, size_bytes, done, oob,
                       deserializeCellData(cells_data, size_bytes))

ReadCellsPush(n, size_bytes, done, oob, dd) ==
    IF dd.err # "" THEN [err |-> dd.err, oob |-> oob \/ dd.oob, records |-> done]
    ELSE ReadCells(n - 1, dd.residue, size_bytes, Append(done, dd), oob \/ dd.oob)

\* if (r < ci) throw 'Topological order is broken' (line 322).
BrokenOrder(r, ci) == JsLess(r, ci)

\* cells_array[r]: the cell at position r, or undefined.
ArrayAt(cells_num, r) == IF r \in 0..(cells_num - 1) THEN r ELSE Undefined

DeserializeError(e, oob, header) ==
    [err |-> e, oob |-> oob, header |-> header, refs_array |-> <<>>,
     cells_array |-> <<>>, root_cells |-> <<>>]

\* The linking pass and the roots (lines 318-332): cells by position (from
\* 0) with their refs linked, and the roots.
deserializeLink(header, oob, n, records) ==
    IF \E ci \in 0..(n - 1) : \E ri \in 1..Len(records[ci + 1].refs) :
           BrokenOrder(records[ci + 1].refs[ri], ci)
    THEN [DeserializeError("Topological order is broken", oob, header)
             EXCEPT !.refs_array = [ci \in 0..(n - 1) |-> records[ci + 1].refs]]
    ELSE [err |-> "", oob |-> oob, header |-> header,
          refs_array |-> [ci \in 0..(n - 1) |-> records[ci + 1].refs],
          cells_array |->
              [ci \in 0..(n - 1) |->
                  [records[ci + 1].cell EXCEPT
                      !.refs = [ri \in 1..Len(records[ci + 1].refs) |->
                                   ArrayAt(n, records[ci + 1].refs[ri])]]],
          root_cells |-> [i \in 1..Len(header.root_list) |->
                             ArrayAt(n, header.root_list[i])]]

deserializeCells(header, rc) ==
    IF rc.err # "" THEN DeserializeError(rc.err, header.oob \/ rc.oob, header)
    ELSE deserializeLink(header, header.oob \/ rc.oob, Len(rc.records), rc.records)

deserializeHeader(header) ==
    IF header.err # "" THEN DeserializeError(header.err, header.oob, header)
    ELSE deserializeCells(header,
                          ReadCells(header.cells_num, header.cells_data,
                                    header.size_bytes, <<>>, FALSE))

deserializeBoc(serializedBoc) == deserializeHeader(parseBocHeader(serializedBoc))

----------------------------------------------------------------------------
(* The cells the specifications draw from.                                 *)

\* A payload of n bits: 1 0 0 1 0 0 ...
BitPattern(n) == [i \in 1..n |-> IF i % 3 = 1 THEN 1 ELSE 0]

\* Payload lengths: empty, ending inside a byte, ending on a byte boundary.
PayloadLens == {0, 3, 8}

\* Sequences of at most n elements of S.
RECURSIVE SeqsUpTo(_, _)
SeqsUpTo(S, n) ==
    IF n = 0 THEN {<<>>}
    ELSE SeqsUpTo(S, n - 1)
         \cup {Append(q, x) : q \in {q \in SeqsUpTo(S, n - 1) : Len(q) = n - 1}, x \in S}

\* A cell's refs point to cells with a larger id: the graph is acyclic.
RefSeqs(c, n) == SeqsUpTo((c + 1)..n, MaxRefs)

RECURSIVE Reach(_, _)
Reach(h, c) ==
    {c} \cup UNION {Reach(h, h[c].refs[k]) : k \in 1..Len(h[c].refs)}

----------------------------------------------------------------------------
(* Spec: the hash/depth engine under top-level calls and mutations.        *)

Unchanged == [how |-> "none", at |-> 0]
NoResult == [err |-> "none"]

DefaultOptions ==
    [has_idx |-> TRUE, hash_crc32 |-> TRUE, has_cache_bits |-> FALSE, flags |-> 0]

NoCall ==
    [fn |-> "none", cell |-> 0, err |-> "", val |-> 0, fresh |-> FALSE,
     hashRuns |-> NoRuns, depthRuns |-> NoRuns, depthLog |-> {}]

\* A kind outside CellType reaches the cell only through a cast; the
\* serializer throws 'Invalid cell type' on it.
EngineKinds(c) ==
    IF c = 1 THEN {"ordinary"}
    ELSE IF c = 2 THEN {"pruned"}
    ELSE {"merkle_update", "invalid"}

EngineHeaps ==
    {h \in [1..MaxCells -> [kind : {"ordinary", "pruned", "merkle_update", "invalid"},
                            bits : {BitPattern(3)},
                            refs : SeqsUpTo(2..MaxCells, MaxRefs)]] :
        \A c \in 1..MaxCells : /\ h[c].kind \in EngineKinds(c)
                               /\ h[c].refs \in RefSeqs(c, MaxCells)}

Interpreter ==
    [ctx |-> cacheContext, syms |-> symbols, cache |-> cellCache,
     hashRuns |-> NoRuns, depthRuns |-> NoRuns, depthLog |-> {}]

\* What a top-level call leaves behind.
Returned(fn, c, r) ==
    /\ cacheContext' = r.st.ctx
    /\ symbols' = r.st.syms
    /\ cellCache' = r.st.cache
    /\ last' = [fn |-> fn, cell |-> c, err |-> r.err, val |-> r.val,
                fresh |-> r.st.syms = symbols + 1,
                hashRuns |-> r.st.hashRuns, depthRuns |-> r.st.depthRuns,
                depthLog |-> r.st.depthLog]
    /\ UNCHANGED <<heap, edits>>

InitEngine ==
    /\ heap \in EngineHeaps
    /\ cacheContext = NoContext
    /\ symbols = 0
    /\ cellCache = [p \in {} |-> 0]
    /\ last = NoCall
    /\ edits = 0

InitBocIdle ==
    /\ cells = <<>>
    /\ opts = DefaultOptions
    /\ sent = <<>>
    /\ boc = <<>>
    /\ phase = "idle"
    /\ changed = Unchanged
    /\ out = NoResult

CallHashCell(c) ==
    /\ symbols < MaxSymbols
    /\ Returned("hashCell", c, hashCell(heap, c, Interpreter))
    /\ UNCHANGED bocVars

CallGetMaxDepth(c) ==
    /\ symbols < MaxSymbols
    /\ Returned("getMaxDepth", c, getMaxDepth(heap, c, Interpreter))
    /\ UNCHANGED bocVars

CallSerializeToBoc(c) ==
    /\ symbols < MaxSymbols
    /\ Returned("serializeToBoc", c,
                serializeToBoc(heap, c, DefaultOptions, Interpreter))
    /\ UNCHANGED bocVars

\* The caller writes a cell's payload between two calls.
SetPayload(c, bits) ==
    /\ edits < MaxEdits
    /\ bits # heap[c].bits
    /\ heap' = [heap EXCEPT ![c].bits = bits]
    /\ edits' = edits + 1
    /\ last' = NoCall
    /\ UNCHANGED <<cacheContext, symbols, cellCache>>
    /\ UNCHANGED bocVars

\* The caller writes a cell's refs between two calls.
SetRefs(c, refs) ==
    /\ edits < MaxEdits
    /\ refs # heap[c].refs
    /\ heap' = [heap EXCEPT ![c].refs = refs]
    /\ edits' = edits + 1
    /\ last' = NoCall
    /\ UNCHANGED <<cacheContext, symbols, cellCache>>
    /\ UNCHANGED bocVars

Init == InitEngine /\ InitBocIdle

Next ==
    \/ \E c \in 1..MaxCells : CallHashCell(c)
    \/ \E c \in 1..MaxCells : CallGetMaxDepth(c)
    \/ \E c \in 1..MaxCells : CallSerializeToBoc(c)
    \/ \E c \in 1..MaxCells : \E n \in PayloadLens : SetPayload(c, BitPattern(n))
    \/ \E c \in 1..MaxCells : \E refs \in RefSeqs(c, MaxCells) : SetRefs(c, refs)

Spec == Init /\ [][Next]_vars

----------------------------------------------------------------------------
(* SpecBoc: a graph is serialized, the container is left as it is, or has  *)
(* one byte replaced, or its tail cut, and is deserialized.                *)

\* A cell's kind and the length of its payload.
Contents ==
    <<[kind |-> "ordinary", len |-> 0], [kind |-> "pruned", len |-> 8],
      [kind |-> "merkle_proof", len |-> 3], [kind |-> "ordinary", len |-> 3],
      [kind |-> "library_reference", len |-> 0],
      [kind |-> "merkle_update", len |-> 8]>>

\* The contents of the cells of a graph: all alike (k <= 6), or each cell
\* with the next of Contents (k > 6).
Palettes == 1..(2 * Len(Contents))
PaletteAt(k, c) ==
    IF k <= Len(Contents) THEN Contents[k]
    ELSE Contents[((k + c) % Len(Contents)) + 1]

\* The refs of n cells, every cell reachable from cell 1.
Shapes(n) ==
    {r \in [1..n -> SeqsUpTo(2..n, MaxRefs)] :
        /\ \A c \in 1..n : r[c] \in RefSeqs(c, n)
        /\ Reach([c \in 1..n |-> [refs |-> r[c]]], 1) = 1..n}

\* A root with the most refs the descriptor byte can count.
SevenRefs == (1 :> <<2, 2, 2, 2, 2, 2, 2>>) @@ (2 :> <<>>)

Graph(r, k) ==
    [c \in DOMAIN r |->
        NewCell(PaletteAt(k, c).kind, BitPattern(PaletteAt(k, c).len), r[c])]

BocGraphs ==
    {Graph(r, k) : r \in {SevenRefs} \cup UNION {Shapes(n) : n \in 1..MaxCells},
                   k \in Palettes}

AllOptions ==
    [has_idx : BOOLEAN, hash_crc32 : BOOLEAN, has_cache_bits : BOOLEAN,
     flags : 0..3]

\* Every option combination on one-cell graphs, has_idx and hash_crc32 on all.
BocOptions(g) ==
    IF Cardinality(DOMAIN g) = 1 THEN AllOptions
    ELSE {o \in AllOptions : ~o.has_cache_bits /\ o.flags = 0}

\* Replaced values: every single bit flipped, and all of them.
Masks == {1, 2, 4, 8, 16, 32, 64, 128, 255}

InitEngineIdle ==
    /\ heap = <<>>
    /\ cacheContext = NoContext
    /\ symbols = 0
    /\ cellCache = [p \in {} |-> 0]
    /\ last = NoCall
    /\ edits = 0

InitBocBuilt ==
    /\ cells \in BocGraphs
    /\ opts \in BocOptions(cells)
    /\ sent = <<>>
    /\ boc = <<>>
    /\ phase = "built"
    /\ changed = Unchanged
    /\ out = NoResult

\* The container of the graph under the options, by a top-level call.
Container == serializeToBoc(cells, 1, opts, CleanState).val

Serialize ==
    /\ phase = "built"
    /\ sent' = Container
    /\ boc' = Container
    /\ phase' = "serialized"
    /\ UNCHANGED <<cells, opts, changed, out>>
    /\ UNCHANGED engineVars

\* Containers small enough to have every byte replaced and every tail cut.
Changeable ==
    /\ Cardinality(DOMAIN cells) <= MaxChangeCells
    /\ ~opts.has_cache_bits
    /\ opts.flags = 0

ReplaceByte(pos, mask) ==
    /\ phase = "serialized"
    /\ Changeable
    /\ pos \in 1..Len(boc)
    /\ boc' = [boc EXCEPT ![pos] = BitXor(@, mask)]
    /\ changed' = [how |-> "byte", at |-> pos]
    /\ phase' = "changed"
    /\ UNCHANGED <<cells, opts, sent, out>>
    /\ UNCHANGED engineVars

CutTail(len) ==
    /\ phase = "serialized"
    /\ Changeable
    /\ len \in 0..(Len(boc) - 1)
    /\ boc' = SubSeq(boc, 1, len)
    /\ changed' = [how |-> "tail", at |-> len]
    /\ phase' = "changed"
    /\ UNCHANGED <<cells, opts, sent, out>>
    /\ UNCHANGED engineVars

Deserialize ==
    /\ phase \in {"serialized", "changed"}
    /\ out' = deserializeBoc(boc)
    /\ phase' = "read"
    /\ UNCHANGED <<cells, opts, sent, boc, changed>>
    /\ UNCHANGED engineVars

InitBoc == InitEngineIdle /\ InitBocBuilt

NextBoc ==
    \/ Serialize
    \/ \E pos \in 1..Len(boc) : \E mask \in Masks : ReplaceByte(pos, mask)
    \/ \E len \in 0..(Len(boc) - 1) : CutTail(len)
    \/ Deserialize

SpecBoc == InitBoc /\ [][NextBoc]_vars

----------------------------------------------------------------------------
(* The properties checked of Spec.                                         *)

\* What a top-level call returns when no cell has anything cached.
FromScratchHash(h, c) == hashCell(h, c, CleanState).val
FromScratchDepth(h, c) == getMaxDepth(h, c, CleanState).val

\* The depth of a cell by the law alone.
RECURSIVE DepthByLaw(_, _)
DepthByLaw(h, c) ==
    IF Len(h[c].refs) = 0 THEN 0
    ELSE 1 + (CHOOSE d \in {DepthByLaw(h, h[c].refs[k]) : k \in 1..Len(h[c].refs)} :
                 \A k \in 1..Len(h[c].refs) : DepthByLaw(h, h[c].refs[k]) <= d)

\* C2 (cache isolation): between top-level calls there is no cache context;
\* every top-level call created a context of its own, whether it returned
\* or threw; and what hashCell or getMaxDepth returned is what the call
\* computes from scratch on the graph as it is now, whatever earlier calls
\* memoized before the graph was mutated.
CacheIsolation ==
    /\ cacheContext = NoContext
    /\ last.fn # "none" => last.fresh
    /\ last.fn = "hashCell" =>
           last.err = "" /\ last.val = FromScratchHash(heap, last.cell)
    /\ last.fn = "getMaxDepth" =>
           last.err = "" /\ last.val = FromScratchDepth(heap, last.cell)

\* A second hashCell on a cell whose hash an earlier call memoized, after a
\* mutation: the memoized digest is still attached, and is not what came back.
CacheIsolationWitness ==
    /\ last.fn = "hashCell"
    /\ edits > 0
    /\ symbols = 2
    /\ <<last.cell, 1>> \in DOMAIN cellCache
    /\ cellCache[<<last.cell, 1>>].hash # NullHash
    /\ cellCache[<<last.cell, 1>>].hash # last.val

\* C6 (shared-subtree memoization): in one top-level call the digest and the
\* depth body run at most once per cell; hashCell and serializeToBoc digest
\* every reachable cell exactly once and compute the depth of every
\* reachable cell but the root exactly once.
MemoizedOnce ==
    /\ \A c \in 1..MaxCells : /\ Runs(last.hashRuns, c) <= 1
                              /\ Runs(last.depthRuns, c) <= 1
    /\ last.fn \in {"hashCell", "serializeToBoc"} =>
           \A c \in Reach(heap, last.cell) :
               /\ Runs(last.hashRuns, c) = 1
               /\ c # last.cell => Runs(last.depthRuns, c) = 1

\* hashCell on a root whose second child is also held, twice, by its first.
MemoizedOnceWitness ==
    /\ last.fn = "hashCell"
    /\ last.cell = 1
    /\ heap[1].refs = <<2, 3>>
    /\ heap[2].refs = <<3, 3>>
    /\ Runs(last.hashRuns, 3) = 1
    /\ Runs(last.depthRuns, 3) = 1

\* C9 (depth law): every value getMaxDepth returns, at top level or nested
\* in a hashing or serializing call, is 0 exactly when the cell has no refs
\* and otherwise 1 + the largest depth among its children.
DepthLaw ==
    /\ \A e \in last.depthLog :
           /\ e[2] = DepthByLaw(heap, e[1])
           /\ e[2] = 0 <=> heap[e[1]].refs = <<>>
    /\ (last.fn = "getMaxDepth" /\ last.err = "") =>
           /\ last.val = DepthByLaw(heap, last.cell)
           /\ <<last.cell, last.val, TRUE>> \in last.depthLog

\* A top-level getMaxDepth of a chain of three cells: 2 at top level, and
\* nested in it 1 for the middle cell and 0 for the leaf.
DepthLawWitness ==
    /\ last.fn = "getMaxDepth"
    /\ last.val = 2
    /\ \E e \in last.depthLog : e[2] = 1 /\ ~e[3]
    /\ \E e \in last.depthLog : e[2] = 0 /\ ~e[3]

\* C7 (hash representation of exotic cells): the buffer hashCell digests of
\* an exotic cell is 2 + 1 + topUppedLength + 34 * refs bytes long, the type
\* byte included.
ExoticReprLength ==
    (last.fn = "hashCell" /\ last.err = "" /\ isExotic(heap[last.cell])) =>
        ReprLength(last.val[2])
            = 2 + 1 + getTopUppedLength(heap[last.cell].bits)
              + 34 * Len(heap[last.cell].refs)

----------------------------------------------------------------------------
(* The properties checked of SpecBoc.                                      *)

\* The cell d of the graph r is the image of the cell c of the graph g: the
\* same hash, and the refs images of the refs, one by one.
RECURSIVE Corresponds(_, _, _, _)
Corresponds(g, c, r, d) ==
    /\ d # Undefined
    /\ FromScratchHash(g, c) = FromScratchHash(r, d)
    /\ Len(g[c].refs) = Len(r[d].refs)
    /\ \A k \in 1..Len(g[c].refs) : Corresponds(g, g[c].refs[k], r, r[d].refs[k])

\* C1 (round trip): the container of a graph, read as it was written, gives
\* exactly one root, and every cell of the graph has its image in the
\* result, with the same hash.
RoundTrip ==
    (phase = "read" /\ changed.how = "none") =>
        /\ out.err = ""
        /\ Len(out.root_cells) = 1
        /\ Corresponds(cells, 1, out.cells_array, out.root_cells[1])

\* Three cells of three kinds, one of them shared by the two others, with
\* the index and the checksum.
RoundTripWitness ==
    /\ phase = "read"
    /\ changed.how = "none"
    /\ out.err = ""
    /\ opts.has_idx /\ opts.hash_crc32
    /\ DOMAIN cells = 1..3
    /\ cells[1].refs = <<2, 3>>
    /\ cells[2].refs = <<3>>
    /\ isExotic(cells[2]) /\ isExotic(cells[3])
    /\ DOMAIN out.cells_array = 0..2

\* C3 (topological rejection): a container that is read successfully has no
\* record at a position i with a reference index j <= i.
TopologicalRejection ==
    (phase = "read" /\ out.err = "") =>
        \A ci \in DOMAIN out.refs_array :
            \A ri \in 1..Len(out.refs_array[ci]) :
                ~(out.refs_array[ci][ri] \in 0..ci)

\* The widths the container was written with: size_bytes in the three low
\* bits of the flag byte, offset_bytes in the byte after it.
SentSizeBytes == sent[5] % 8
SentOffsetBytes == sent[6]

\* Where the container's root indices start (positions from 1).
SentRoots == 7 + 3 * SentSizeBytes + SentOffsetBytes

\* Positions whose bytes no length or width is computed from: the absent
\* count and everything from the root indices on.
LayoutNeutral(pos) ==
    \/ pos \in (7 + 2 * SentSizeBytes)..(6 + 3 * SentSizeBytes)
    \/ pos >= SentRoots

TruncationSafety ==
    phase = "read" => ~out.oob /\ out.err # "RangeError"

\* C8 (header option round trip): the header of a container read as it was
\* written reports the options it was written with.
HeaderOptionRoundTrip ==
    (phase = "read" /\ changed.how = "none") =>
        /\ out.header.err = ""
        /\ out.header.has_idx = opts.has_idx
        /\ out.header.hash_crc32 = opts.hash_crc32
        /\ out.header.has_cache_bits = opts.has_cache_bits
        /\ out.header.flags = opts.flags

\* C10 (no dangling links): in a successful result every root and every ref
\* of every cell is one of the cells decoded from the container.
NoDanglingLinks ==
    (phase = "read" /\ out.err = "") =>
        /\ \A i \in 1..Len(out.root_cells) : out.root_cells[i] # Undefined
        /\ \A ci \in DOMAIN out.cells_array :
               \A ri \in 1..Len(out.cells_array[ci].refs) :
                   out.cells_array[ci].refs[ri] # Undefined

====
